---- MODULE Spec2Model ----
(***************************************************************************)
(* Model of the IBM CIS DNS provider (pkg/dns/ibm/dns.go): Ensure, Replace *)
(* and Delete reconcile one DNSRecord (name, type, targets, TTL) against   *)
(* the record entries the remote service stores for a zone.  Every remote  *)
(* round trip (list, create, update, delete) is one step, so that other    *)
(* writers of the zone can act between two round trips of a call.          *)
(***************************************************************************)
EXTENDS Integers, Sequences, FiniteSets, TLC

(***************************************************************************)
(* Bounds of the model.  A behaviour is either a sequence of up to         *)
(* MaxCalls calls against a service that answers every call and that no    *)
(* one else writes to, or one call during which the service may fail up to *)
(* MaxFaults times and another writer may act up to MaxExternal times      *)
(* (before the call as well, which gives the call a store that already     *)
(* holds entries, duplicates included).                                    *)
(***************************************************************************)
MaxCalls == 2
MaxTargets == 2
MaxFaults == 2
MaxExternal == 2

(***************************************************************************)
(* Input domains.  A DNS name is a sequence of characters, so that the     *)
(* trailing-dot handling is computed and not assumed.                      *)
(***************************************************************************)
DNSNames == { <<>>, <<"a">>, <<"a", ".">> }
RecordTypes == { "", "A" }
TargetValues == { "t1", "t2" }
TTLValues == { 0, 300 }
ZoneIDs == { "", "z1", "z2", "zx" }
\* config.Zones, in the order NewProvider ranges over it, and its zone ids.
Zones == << "z1", "z2" >>
ConfiguredZones == { "z1", "z2" }
Procs == { 1 }

SeqsUpTo(S, n) == UNION { [1..k -> S] : k \in 0..n }

TargetLists == SeqsUpTo(TargetValues, MaxTargets)

\* The nil *iov1.DNSRecord; its fields are never read by the code.
NilRecord ==
    [isNil |-> TRUE, DNSName |-> <<>>, RecordType |-> "", Targets |-> <<>>,
     RecordTTL |-> 0]

Records ==
    { NilRecord } \cup
    [isNil : {FALSE}, DNSName : DNSNames, RecordType : RecordTypes,
     Targets : TargetLists, RecordTTL : TTLValues]

\* The records that pass validation.
ValidRecords ==
    { r \in Records : ~r.isNil /\ Len(r.DNSName) > 0 /\ r.RecordType # ""
                      /\ Len(r.Targets) > 0 }

\* Records that break the validation rules, alone and together.
InvalidRecords ==
    { r \in Records \ ValidRecords : r.RecordTTL = 0 /\ Len(r.Targets) <= 1
                                     /\ r.DNSName # << "a", "." >> }

\* The (record, zone) pairs the callers pass: every valid record with every
\* configured zone, and pairs that fail validation or zone resolution.
CallInputs ==
    (ValidRecords \X ConfiguredZones)
    \cup (InvalidRecords \X { "", "z1" })
    \cup ({ r \in ValidRecords : r.RecordTTL = 0 /\ Len(r.Targets) = MaxTargets }
             \X { "", "zx" })

Ops == { "Ensure", "Replace", "Delete" }

defaultCISRecordTTL == 120
StatusOK == 200
StatusNotFound == 404
StatusServerError == 500
\* "response == nil": the call failed without any HTTP response.
NoResponse == 0
\* A nil *string in resultData.ID.
NilID == 0

Dot == <<".">>

(***************************************************************************)
(* strings.TrimSuffix: s without the trailing suffix, or s unchanged.      *)
(***************************************************************************)
TrimSuffix(s, suffix) ==
    IF Len(s) >= Len(suffix)
          /\ SubSeq(s, Len(s) - Len(suffix) + 1, Len(s)) = suffix
    THEN SubSeq(s, 1, Len(s) - Len(suffix))
    ELSE s

(***************************************************************************)
(* validateInputDNSData: the failures of a (record, zone) pair, in the     *)
(* order the code appends them; kerrors.NewAggregate of the empty list is  *)
(* nil.                                                                    *)
(***************************************************************************)
\* A variant that leaves out the rule on the record type.
validateWithoutType(record, zone) ==
    (IF record.isNil
     THEN << "dns record is nil" >>
     ELSE (IF Len(record.DNSName) = 0 THEN << "dns record name is empty" >> ELSE << >>)
          \o (IF Len(record.Targets) = 0 THEN << "dns record content is empty" >> ELSE << >>))
    \o (IF zone = "" THEN << "dns zone id is empty" >> ELSE << >>)

\* A variant that stops at the first rule that is broken.
validateFirstFailure(record, zone) ==
    IF record.isNil THEN << "dns record is nil" >>
    ELSE IF Len(record.DNSName) = 0 THEN << "dns record name is empty" >>
    ELSE IF record.RecordType = "" THEN << "dns record type is empty" >>
    ELSE IF Len(record.Targets) = 0 THEN << "dns record content is empty" >>
    ELSE IF zone = "" THEN << "dns zone id is empty" >>
    ELSE << >>

validateInputDNSData(record, zone) ==
    (IF record.isNil
     THEN << "dns record is nil" >>
     ELSE (IF Len(record.DNSName) = 0 THEN << "dns record name is empty" >> ELSE << >>)
          \o (IF record.RecordType = "" THEN << "dns record type is empty" >> ELSE << >>)
          \o (IF Len(record.Targets) = 0 THEN << "dns record content is empty" >> ELSE << >>))
    \o (IF zone = "" THEN << "dns zone id is empty" >> ELSE << >>)

(***************************************************************************)
(* The TTL the upsert path writes back into record.Spec.RecordTTL.         *)
(***************************************************************************)
\* A variant that passes the requested TTL on as it is.
requestedTTL(ttl) == ttl

effectiveTTL(ttl) ==
    IF (ttl > 1 /\ ttl < 120) \/ ttl = 0 THEN defaultCISRecordTTL ELSE ttl

(***************************************************************************)
(* The name filter of the list call: trimmed on the upsert path, the       *)
(* record's name as it is on the delete path.                              *)
(***************************************************************************)
\* A variant that lists by the record's name as it is.
upsertListNameUntrimmed(record) == record.DNSName

upsertListName(record) == TrimSuffix(record.DNSName, Dot)

deleteListName(record) == record.DNSName

(***************************************************************************)
(* What the code does with a failed list or delete call: the error is      *)
(* returned when there is a response whose status is not 404.              *)
(***************************************************************************)
\* A variant that goes on to the next target after any failed list call.
upsertListErrorIgnored(resp) == FALSE

upsertListErrorReturned(resp) ==
    resp.status # NoResponse /\ resp.status # StatusNotFound

deleteListErrorReturned(resp) ==
    resp.status # NoResponse /\ resp.status # StatusNotFound

\* A variant that returns every error of the delete call.
deleteAnyErrorReturned(resp) == TRUE

\* A variant that goes on to the next entry after any failed delete call.
deleteErrorIgnored(resp) == FALSE

deleteErrorReturned(resp) ==
    resp.status # NoResponse /\ resp.status # StatusNotFound

(***************************************************************************)
(* The remote service.  An entry is [id, zone, name, type, content, ttl].  *)
(* The service keeps names without the trailing root dot (this is why the  *)
(* upsert path trims the name it lists by) and a list filter selects the   *)
(* entries whose stored name, type and content equal the filter's.         *)
(* A response is [err, status, nilResult, result, store, fault]: the       *)
(* error and HTTP status the client returns (status NoResponse: no         *)
(* response at all), the ids of the listed entries in the order the        *)
(* service returns them, the store after the call, and whether the         *)
(* response is a failure the service injects.                              *)
(***************************************************************************)
remoteName(name) == TrimSuffix(name, Dot)

Entry(id, zone, name, type, content, ttl) ==
    [id |-> id, zone |-> zone, name |-> remoteName(name), type |-> type,
     content |-> content, ttl |-> ttl]

Matching(st, zone, name, type, content) ==
    { e \in st : e.zone = zone /\ e.name = name /\ e.type = type
                 /\ e.content = content }

Orderings(S) ==
    { s \in [1..Cardinality(S) -> S] :
        \A i, j \in 1..Cardinality(S) : i # j => s[i] # s[j] }

Response(err, status, nilResult, result, st, fault) ==
    [err |-> err, status |-> status, nilResult |-> nilResult,
     result |-> result, store |-> st, fault |-> fault]

\* The failures any call can end in: a server error, or no response at all.
TransportFailures(st) ==
    { Response(TRUE, StatusServerError, TRUE, <<>>, st, TRUE),
      Response(TRUE, NoResponse, TRUE, <<>>, st, TRUE) }

ListAllDnsRecords(st, zone, name, type, content, mayFail) ==
    LET ids == { e.id : e \in Matching(st, zone, name, type, content) }
        good == { Response(FALSE, StatusOK, FALSE, s, st, FALSE) : s \in Orderings(ids) }
        notFound == IF ids = {}
                    THEN { Response(TRUE, StatusNotFound, TRUE, <<>>, st, TRUE) }
                    ELSE {}
        nilResult == { Response(FALSE, StatusOK, TRUE, <<>>, st, TRUE) }
        nilId == { Response(FALSE, StatusOK, FALSE, [s EXCEPT ![k] = NilID], st, TRUE) :
                     s \in Orderings(ids), k \in 1..Cardinality(ids) }
    IN  good \cup (IF mayFail
                   THEN TransportFailures(st) \cup notFound \cup nilResult \cup nilId
                   ELSE {})

CreateDnsRecord(st, id, zone, name, type, content, ttl, mayFail) ==
    { Response(FALSE, StatusOK, FALSE, << id >>,
               st \cup { Entry(id, zone, name, type, content, ttl) }, FALSE) }
    \cup (IF mayFail THEN TransportFailures(st) ELSE {})

UpdateDnsRecord(st, id, zone, name, type, content, ttl, mayFail) ==
    (IF \E e \in st : e.id = id /\ e.zone = zone
     THEN { Response(FALSE, StatusOK, FALSE, << id >>,
                     { e \in st : e.id # id }
                        \cup { Entry(id, zone, name, type, content, ttl) }, FALSE) }
     ELSE { Response(TRUE, StatusNotFound, TRUE, <<>>, st, FALSE) })
    \cup (IF mayFail THEN TransportFailures(st) ELSE {})

DeleteDnsRecord(st, id, zone, mayFail) ==
    (IF \E e \in st : e.id = id /\ e.zone = zone
     THEN { Response(FALSE, StatusOK, FALSE, << id >>, { e \in st : e.id # id }, FALSE) }
     ELSE { Response(TRUE, StatusNotFound, TRUE, <<>>, st, FALSE) })
    \cup (IF mayFail THEN TransportFailures(st) ELSE {})

(***************************************************************************)
(* State.                                                                  *)
(*   store        the entries the remote service holds, all zones          *)
(*   nextId       the id the service gives the next created entry          *)
(*   dnsServices  Provider.dnsServices: for every zone id that has a       *)
(*                client, the zone identifier the client sends its         *)
(*                requests to                                              *)
(*   pc           where each caller is in its call                         *)
(*   call         the call in progress: operation, zone id, the record as  *)
(*                passed, the store and the count of foreign writes at     *)
(*                the start of the call                                    *)
(*   rec          the caller's record object (the upsert path writes its   *)
(*                TTL)                                                     *)
(*   idx          index of the current target in record.Spec.Targets       *)
(*   listed       result.Result of the last list call (entry ids)          *)
(*   dj           index of the current entry in the delete loop            *)
(*   ret          the error the call returns                               *)
(*   log          the remote calls the call has issued, in order           *)
(*   prev         the last completed call, if it returned no error,         *)
(*                undisturbed, on a store that held no entry of its record *)
(*   mode         the kind of behaviour explored: "sequence" (calls one    *)
(*                after the other, undisturbed) or "disturbed" (one call,   *)
(*                with failures of the service and another writer)         *)
(*   calls, faults, externals   counters that bound the exploration        *)
(***************************************************************************)
VARIABLES store, nextId, dnsServices, pc, call, rec, idx, listed, dj, ret,
          log, prev, mode, calls, faults, externals

(***************************************************************************)
(* State of the router deployment reconciler                               *)
(* (pkg/operator/controller/controller_router_deployment.go).              *)
(*   cluster   the router deployment the cluster holds, or NoDeployment    *)
(*   rpc       where ensureRouterDeployment is                             *)
(*   ci        the clusteringress it was called with                       *)
(*   desired   the deployment desiredRouterDeployment built                *)
(*   current   the deployment currentRouterDeployment returned             *)
(*   returned  what ensureRouterDeployment returns: deployment and error   *)
(*   writes    the writes the call has sent to the cluster, in order       *)
(*   cluster0  the deployment the cluster held when the call started       *)
(***************************************************************************)
VARIABLES cluster, rpc, ci, desired, current, returned, writes, cluster0

routerVars == << cluster, rpc, ci, desired, current, returned, writes, cluster0 >>

providerVars == << store, nextId, dnsServices, pc, call, rec, idx, listed, dj, ret,
                   log, prev, mode, calls, faults, externals >>

vars == << store, nextId, dnsServices, pc, call, rec, idx, listed, dj, ret,
           log, prev, mode, calls, faults, externals, routerVars >>

NoCall == [op |-> "none", zone |-> "", rec0 |-> NilRecord, store0 |-> {}, ext0 |-> 0]

NoPrev ==
    [valid |-> FALSE, op |-> "none", zone |-> "", rec0 |-> NilRecord,
     rec |-> NilRecord, ext |-> 0]

Pending == [kind |-> "pending", errs |-> <<>>]
NoError == [kind |-> "nil", errs |-> <<>>]
Error(kind, errs) == [kind |-> kind, errs |-> errs]

\* "*dnsService.ZoneIdentifier" of the client a call resolved for its zone id:
\* the zone of the remote store its requests address.
ZoneIdentifier(zone) ==
    IF zone \in DOMAIN dnsServices THEN dnsServices[zone] ELSE zone

LogEntry(kind, p, name, content, ttl, id, resp) ==
    [call |-> kind, zone |-> ZoneIdentifier(call[p].zone), tgt |-> idx[p], name |-> name,
     type |-> rec[p].RecordType, content |-> content, ttl |-> ttl, id |-> id,
     err |-> resp.err, status |-> resp.status, nilResult |-> resp.nilResult,
     result |-> resp.result, fault |-> resp.fault]

(***************************************************************************)
(* NewProvider: one client per zone id of config.Zones.  Each client keeps *)
(* the pointer "&zone" to the variable of the range loop as its zone       *)
(* identifier and reads it on every request.  In a build whose loops have  *)
(* one variable per iteration (Go 1.22 and later) every client addresses   *)
(* its own zone; in a build whose loop has one variable for all iterations *)
(* every client addresses the value the variable holds after the loop, the *)
(* last zone id of the list.                                               *)
(***************************************************************************)
NewProvider(zones) ==
    { [z \in { zones[i] : i \in 1..Len(zones) } |-> z],
      [z \in { zones[i] : i \in 1..Len(zones) } |-> zones[Len(zones)]] }

(***************************************************************************)
(* Data of the router deployment reconciler.  A deployment is its name,    *)
(* namespace, the number of its volumes, the secret name of its first      *)
(* volume and its replica count (NilReplicas: the nil *int32).             *)
(***************************************************************************)
NilReplicas == -1
NoDeployment == [isNil |-> TRUE]

Deployment(name, namespace, volumes, secretName, replicas) ==
    [isNil |-> FALSE, Name |-> name, Namespace |-> namespace, Volumes |-> volumes,
     SecretName |-> secretName, Replicas |-> replicas]

\* "&appsv1.Deployment{}": the object a failed read leaves untouched.
EmptyDeployment == Deployment(<< >>, "", 0, << >>, NilReplicas)

NoClusterIngress ==
    [Name |-> "", DefaultCertificateSecret |-> << >>, Replicas |-> 0,
     validSelectors |-> TRUE]

NoResult == [deployment |-> NoDeployment, err |-> "pending"]

\* No call of ensureRouterDeployment is in progress.
RouterIdle ==
    /\ rpc = "idle"
    /\ ci = NoClusterIngress
    /\ desired = NoDeployment
    /\ current = NoDeployment
    /\ returned = NoResult
    /\ writes = << >>
    /\ cluster0 = NoDeployment

Init ==
    /\ cluster = NoDeployment
    /\ RouterIdle
    /\ store = {}
    /\ nextId = 1
    /\ dnsServices \in NewProvider(Zones)
    /\ pc = [p \in Procs |-> "idle"]
    /\ call = [p \in Procs |-> NoCall]
    /\ rec = [p \in Procs |-> NilRecord]
    /\ idx = [p \in Procs |-> 0]
    /\ listed = [p \in Procs |-> <<>>]
    /\ dj = [p \in Procs |-> 0]
    /\ ret = [p \in Procs |-> Pending]
    /\ log = [p \in Procs |-> <<>>]
    /\ prev = NoPrev
    /\ mode \in { "sequence", "disturbed" }
    /\ calls = 0
    /\ faults = 0
    /\ externals = 0

\* A variant that finds a client for every zone id.
anyDNSService(zone) == TRUE

\* "dnsService, ok := p.dnsServices[zone.ID]".
hasDNSService(zone) == zone \in DOMAIN dnsServices

CallAllowed == calls < (IF mode = "sequence" THEN MaxCalls ELSE 1)
FaultAllowed == mode = "disturbed" /\ faults < MaxFaults
ExternalAllowed == mode = "disturbed" /\ externals < MaxExternal

(***************************************************************************)
(* Ends of a step of the target loop.                                      *)
(***************************************************************************)
\* "return fmt.Errorf(...)": the call ends with this error.
ReturnError(p, kind, errs) ==
    /\ pc' = [pc EXCEPT ![p] = "done"]
    /\ ret' = [ret EXCEPT ![p] = Error(kind, errs)]
    /\ idx' = idx

\* The end of one iteration of "for _, target := range record.Spec.Targets":
\* the next target is listed, or the loop is over and the call returns nil.
NextTarget(p) ==
    IF idx[p] < Len(rec[p].Targets)
    THEN /\ pc' = [pc EXCEPT ![p] = "list"]
         /\ idx' = [idx EXCEPT ![p] = @ + 1]
         /\ ret' = ret
    ELSE /\ pc' = [pc EXCEPT ![p] = "done"]
         /\ ret' = [ret EXCEPT ![p] = NoError]
         /\ idx' = idx

(***************************************************************************)
(* createOrUpdateDNSRecord, up to its target loop: validation, zone        *)
(* resolution and the TTL written back into the record.                    *)
(***************************************************************************)
createOrUpdateDNSRecord(p, o, record, zone) ==
    /\ pc[p] = "idle"
    /\ CallAllowed
    /\ calls' = calls + 1
    /\ call' = [call EXCEPT ![p] = [op |-> o, zone |-> zone, rec0 |-> record,
                                    store0 |-> store, ext0 |-> externals]]
    /\ log' = [log EXCEPT ![p] = <<>>]
    /\ listed' = [listed EXCEPT ![p] = <<>>]
    /\ dj' = [dj EXCEPT ![p] = 0]
    /\ LET errs == validateInputDNSData(record, zone)
       IN  IF errs # <<>>
           THEN /\ rec' = [rec EXCEPT ![p] = record]
                /\ ReturnError(p, "invalid", errs)
           ELSE IF ~hasDNSService(zone)
           THEN /\ rec' = [rec EXCEPT ![p] = record]
                /\ ReturnError(p, "unknownZone", << zone >>)
           ELSE /\ rec' = [rec EXCEPT ![p] =
                             [record EXCEPT !.RecordTTL = effectiveTTL(@)]]
                /\ pc' = [pc EXCEPT ![p] = "list"]
                /\ idx' = [idx EXCEPT ![p] = 1]
                /\ ret' = [ret EXCEPT ![p] = Pending]
    /\ UNCHANGED << routerVars, mode, store, nextId, dnsServices, prev, faults, externals >>

Ensure(p) ==
    \E input \in CallInputs : createOrUpdateDNSRecord(p, "Ensure", input[1], input[2])

Replace(p) ==
    \E input \in CallInputs : createOrUpdateDNSRecord(p, "Replace", input[1], input[2])

(***************************************************************************)
(* Delete, up to its target loop: validation and zone resolution.          *)
(***************************************************************************)
DeleteRecord(p, record, zone) ==
    /\ pc[p] = "idle"
    /\ CallAllowed
    /\ calls' = calls + 1
    /\ call' = [call EXCEPT ![p] = [op |-> "Delete", zone |-> zone, rec0 |-> record,
                                    store0 |-> store, ext0 |-> externals]]
    /\ log' = [log EXCEPT ![p] = <<>>]
    /\ listed' = [listed EXCEPT ![p] = <<>>]
    /\ dj' = [dj EXCEPT ![p] = 0]
    /\ rec' = [rec EXCEPT ![p] = record]
    /\ LET errs == validateInputDNSData(record, zone)
       IN  IF errs # <<>>
           THEN ReturnError(p, "invalid", errs)
           ELSE IF ~hasDNSService(zone)
           THEN ReturnError(p, "unknownZone", << zone >>)
           ELSE /\ pc' = [pc EXCEPT ![p] = "list"]
                /\ idx' = [idx EXCEPT ![p] = 1]
                /\ ret' = [ret EXCEPT ![p] = Pending]
    /\ UNCHANGED << routerVars, mode, store, nextId, dnsServices, prev, faults, externals >>

Delete(p) ==
    \E input \in CallInputs : DeleteRecord(p, input[1], input[2])

IsUpsert(p) == call[p].op \in { "Ensure", "Replace" }

(***************************************************************************)
(* Upsert path, one target: the list call and what the code does with its  *)
(* answer.                                                                 *)
(***************************************************************************)
UpsertList(p) ==
    /\ pc[p] = "list"
    /\ IsUpsert(p)
    /\ LET target == rec[p].Targets[idx[p]]
           name == upsertListName(rec[p])
       IN  \E resp \in ListAllDnsRecords(store, ZoneIdentifier(call[p].zone), name, rec[p].RecordType,
                                         target, FaultAllowed) :
             /\ log' = [log EXCEPT ![p] =
                          Append(@, LogEntry("list", p, name, target, 0, NilID, resp))]
             /\ faults' = faults + (IF resp.fault THEN 1 ELSE 0)
             /\ IF resp.err
                THEN /\ IF upsertListErrorReturned(resp)
                        THEN ReturnError(p, "listFailed", << target >>)
                        ELSE NextTarget(p)
                     /\ listed' = listed
                ELSE IF resp.nilResult
                THEN /\ ReturnError(p, "invalidResult", << target >>)
                     /\ listed' = listed
                ELSE /\ pc' = [pc EXCEPT ![p] =
                                 IF Len(resp.result) = 0 THEN "create" ELSE "update"]
                     /\ listed' = [listed EXCEPT ![p] = resp.result]
                     /\ UNCHANGED << idx, ret >>
    /\ UNCHANGED << routerVars, mode, store, nextId, dnsServices, call, rec, dj, prev, calls, externals >>

(***************************************************************************)
(* Upsert path, no entry listed: the create call.                          *)
(***************************************************************************)
UpsertCreate(p) ==
    /\ pc[p] = "create"
    /\ LET target == rec[p].Targets[idx[p]]
       IN  \E resp \in CreateDnsRecord(store, nextId, ZoneIdentifier(call[p].zone), rec[p].DNSName,
                                       rec[p].RecordType, target, rec[p].RecordTTL,
                                       FaultAllowed) :
             /\ log' = [log EXCEPT ![p] =
                          Append(@, LogEntry("create", p, rec[p].DNSName, target,
                                             rec[p].RecordTTL,
                                             IF resp.err THEN NilID ELSE nextId, resp))]
             /\ faults' = faults + (IF resp.fault THEN 1 ELSE 0)
             /\ store' = resp.store
             /\ nextId' = IF resp.err THEN nextId ELSE nextId + 1
             /\ IF resp.err
                THEN ReturnError(p, "createFailed", << target >>)
                ELSE NextTarget(p)
    /\ UNCHANGED << routerVars, mode, dnsServices, call, rec, listed, dj, prev, calls, externals >>

(***************************************************************************)
(* Upsert path, entries listed: the update call on the first listed id.    *)
(* A nil id there is dereferenced: the goroutine panics.                   *)
(***************************************************************************)
\* A variant that takes the id of the last entry listed.
lastListedID(result) == result[Len(result)]

\* "*result.Result[0].ID".
firstListedID(result) == result[1]

UpsertUpdate(p) ==
    /\ pc[p] = "update"
    /\ LET target == rec[p].Targets[idx[p]]
           id == firstListedID(listed[p])
       IN  IF id = NilID
           THEN /\ pc' = [pc EXCEPT ![p] = "panic"]
                /\ UNCHANGED << store, log, faults, idx, ret >>
           ELSE \E resp \in UpdateDnsRecord(store, id, ZoneIdentifier(call[p].zone), rec[p].DNSName,
                                            rec[p].RecordType, target, rec[p].RecordTTL,
                                            FaultAllowed) :
                  /\ log' = [log EXCEPT ![p] =
                               Append(@, LogEntry("update", p, rec[p].DNSName, target,
                                                  rec[p].RecordTTL, id, resp))]
                  /\ faults' = faults + (IF resp.fault THEN 1 ELSE 0)
                  /\ store' = resp.store
                  /\ IF resp.err
                     THEN ReturnError(p, "updateFailed", << target >>)
                     ELSE NextTarget(p)
    /\ UNCHANGED << routerVars, mode, nextId, dnsServices, call, rec, listed, dj, prev, calls, externals >>

(***************************************************************************)
(* Delete path, one target: the list call and what the code does with its  *)
(* answer.                                                                 *)
(***************************************************************************)
DeleteList(p) ==
    /\ pc[p] = "list"
    /\ call[p].op = "Delete"
    /\ LET target == rec[p].Targets[idx[p]]
           name == deleteListName(rec[p])
       IN  \E resp \in ListAllDnsRecords(store, ZoneIdentifier(call[p].zone), name, rec[p].RecordType,
                                         target, FaultAllowed) :
             /\ log' = [log EXCEPT ![p] =
                          Append(@, LogEntry("list", p, name, target, 0, NilID, resp))]
             /\ faults' = faults + (IF resp.fault THEN 1 ELSE 0)
             /\ IF resp.err
                THEN /\ IF deleteListErrorReturned(resp)
                        THEN ReturnError(p, "listFailed", << target >>)
                        ELSE NextTarget(p)
                     /\ UNCHANGED << listed, dj >>
                ELSE IF resp.nilResult
                THEN /\ ReturnError(p, "invalidResult", << target >>)
                     /\ UNCHANGED << listed, dj >>
                ELSE IF Len(resp.result) = 0
                THEN /\ NextTarget(p)
                     /\ UNCHANGED << listed, dj >>
                ELSE /\ pc' = [pc EXCEPT ![p] = "delete"]
                     /\ listed' = [listed EXCEPT ![p] = resp.result]
                     /\ dj' = [dj EXCEPT ![p] = 1]
                     /\ UNCHANGED << idx, ret >>
    /\ UNCHANGED << routerVars, mode, store, nextId, dnsServices, call, rec, prev, calls, externals >>

(***************************************************************************)
(* Delete path, one listed entry: the nil-id check and the delete call.    *)
(***************************************************************************)
DeleteEntry(p) ==
    /\ pc[p] = "delete"
    /\ LET target == rec[p].Targets[idx[p]]
           id == listed[p][dj[p]]
       IN  IF id = NilID
           THEN /\ ReturnError(p, "idNil", << target >>)
                /\ UNCHANGED << store, log, faults, dj >>
           ELSE \E resp \in DeleteDnsRecord(store, id, ZoneIdentifier(call[p].zone), FaultAllowed) :
                  /\ log' = [log EXCEPT ![p] =
                               Append(@, LogEntry("delete", p, <<>>, target, 0, id, resp))]
                  /\ faults' = faults + (IF resp.fault THEN 1 ELSE 0)
                  /\ store' = resp.store
                  /\ IF resp.err /\ deleteErrorReturned(resp)
                     THEN /\ ReturnError(p, "deleteFailed", << target >>)
                          /\ dj' = dj
                     ELSE IF dj[p] < Len(listed[p])
                     THEN /\ dj' = [dj EXCEPT ![p] = @ + 1]
                          /\ UNCHANGED << pc, idx, ret >>
                     ELSE /\ NextTarget(p)
                          /\ dj' = dj
    /\ UNCHANGED << routerVars, mode, nextId, dnsServices, call, rec, listed, prev, calls, externals >>

(***************************************************************************)
(* History of a call, for the properties: the entries of a store that      *)
(* stand for a record in a zone (same name up to the trailing dot, same    *)
(* type, content one of the targets); whether every remote call of the     *)
(* call succeeded and no other writer acted since the call started;        *)
(* whether the store held no entry of the record when the call started.    *)
(***************************************************************************)
Range(s) == { s[i] : i \in 1..Len(s) }

EntriesOf(st, record, zone) ==
    { e \in st : /\ e.zone = zone
                 /\ e.name = remoteName(record.DNSName)
                 /\ e.type = record.RecordType
                 /\ e.content \in Range(record.Targets) }

Quiet(p) ==
    /\ \A i \in 1..Len(log[p]) : ~log[p][i].err /\ ~log[p][i].fault
    /\ externals = call[p].ext0

Fresh(p) ==
    EntriesOf(call[p].store0, call[p].rec0, ZoneIdentifier(call[p].zone)) = {}

(***************************************************************************)
(* The call has returned: the caller is free for its next call.  prev      *)
(* keeps the call if it returned no error, undisturbed, on a store that    *)
(* held no entry of its record.                                            *)
(***************************************************************************)
Return(p) ==
    /\ pc[p] = "done"
    /\ pc' = [pc EXCEPT ![p] = "idle"]
    /\ prev' = IF ~(ret[p] = NoError /\ Quiet(p) /\ Fresh(p))
               THEN NoPrev
               ELSE [valid |-> TRUE, op |-> call[p].op, zone |-> call[p].zone,
                     rec0 |-> call[p].rec0, rec |-> rec[p], ext |-> externals]
    /\ call' = [call EXCEPT ![p] = NoCall]
    /\ rec' = [rec EXCEPT ![p] = NilRecord]
    /\ idx' = [idx EXCEPT ![p] = 0]
    /\ listed' = [listed EXCEPT ![p] = <<>>]
    /\ dj' = [dj EXCEPT ![p] = 0]
    /\ ret' = [ret EXCEPT ![p] = Pending]
    /\ log' = [log EXCEPT ![p] = <<>>]
    /\ UNCHANGED << routerVars, mode, store, nextId, dnsServices, calls, faults, externals >>

(***************************************************************************)
(* Another writer of the zones: it adds an entry or removes one, at any    *)
(* time, also between two remote calls of a call in progress.              *)
(***************************************************************************)
ExternalTTL == 600

ExternalCreate ==
    /\ ExternalAllowed
    /\ \E zone \in ConfiguredZones, content \in TargetValues :
         store' = store \cup { Entry(nextId, zone, << "a" >>, "A", content, ExternalTTL) }
    /\ nextId' = nextId + 1
    /\ externals' = externals + 1
    /\ UNCHANGED << routerVars, mode, dnsServices, pc, call, rec, idx, listed, dj, ret, log, prev,
                    calls, faults >>

ExternalDelete ==
    /\ ExternalAllowed
    /\ \E e \in store : store' = store \ { e }
    /\ externals' = externals + 1
    /\ UNCHANGED << routerVars, mode, nextId, dnsServices, pc, call, rec, idx, listed, dj, ret, log,
                    prev, calls, faults >>

Next ==
    \/ \E p \in Procs : Ensure(p)
    \/ \E p \in Procs : Replace(p)
    \/ \E p \in Procs : Delete(p)
    \/ \E p \in Procs : UpsertList(p)
    \/ \E p \in Procs : UpsertCreate(p)
    \/ \E p \in Procs : UpsertUpdate(p)
    \/ \E p \in Procs : DeleteList(p)
    \/ \E p \in Procs : DeleteEntry(p)
    \/ \E p \in Procs : Return(p)
    \/ ExternalCreate
    \/ ExternalDelete

Spec == Init /\ [][Next]_vars

(***************************************************************************)
(* Properties.                                                             *)
(***************************************************************************)
Done(p) == pc[p] = "done"

Targets(p) == rec[p].Targets

\* The calls of kind c the call of p has issued for its target number i.
CallsFor(p, c, i) ==
    { k \in 1..Len(log[p]) : log[p][k].call = c /\ log[p][k].tgt = i }

\* No other writer has acted since the call of p started.
Undisturbed(p) == externals = call[p].ext0

\* The entries the store of the zone the call of p addresses holds for one
\* target of the record of p.
EntriesFor(st, p, target) ==
    Matching(st, ZoneIdentifier(call[p].zone), remoteName(rec[p].DNSName),
             rec[p].RecordType, target)

\* A remote failure on the upsert path that is not a not-found answer nor a
\* failure without a response: a failed list with another status, a list
\* without a result body, a failed create or update.
UpsertFailure(e) ==
    \/ e.call = "list" /\ e.err /\ e.status # NoResponse /\ e.status # StatusNotFound
    \/ e.call = "list" /\ ~e.err /\ e.nilResult
    \/ e.call \in { "create", "update" } /\ e.err

UpsertFailureKind(e) ==
    IF e.call = "list" THEN (IF e.err THEN "listFailed" ELSE "invalidResult")
    ELSE IF e.call = "create" THEN "createFailed"
    ELSE "updateFailed"

Accepted(p) ==
    /\ call[p].op \in Ops
    /\ validateInputDNSData(call[p].rec0, call[p].zone) = << >>
    /\ call[p].zone \in DOMAIN dnsServices

\* The call in progress of p follows, with nothing in between, a call by
\* operation o with the same record object and zone that returned no error,
\* undisturbed, on a store that held no entry of the record.
Follows(p, o) ==
    /\ prev.valid /\ prev.op = o
    /\ prev.zone = call[p].zone
    /\ call[p].rec0 \in { prev.rec0, prev.rec }
    /\ prev.ext = call[p].ext0

\* C2: two successive Ensure calls with the same valid record (name with or
\* without a trailing dot) and zone, on a store that held no entry of the
\* record, with every remote call succeeding, leave exactly one entry per
\* target: the first call creates one entry per target value, the second
\* issues for every target one update, on the id of the entry the store held
\* for it, and no create.
C2_Idempotent ==
    \A p \in Procs :
        /\ (Done(p) /\ call[p].op = "Ensure" /\ Accepted(p) /\ Fresh(p) /\ Quiet(p))
           => /\ ret[p] = NoError
              /\ \A t \in Range(Targets(p)) :
                   /\ Cardinality(EntriesFor(store, p, t)) = 1
                   /\ Cardinality({ k \in 1..Len(log[p]) :
                          log[p][k].call = "create" /\ log[p][k].content = t }) = 1
        /\ (Done(p) /\ call[p].op = "Ensure" /\ Follows(p, "Ensure") /\ Quiet(p))
           => /\ ret[p] = NoError
              /\ Cardinality(EntriesOf(store, rec[p], ZoneIdentifier(call[p].zone)))
                   = Cardinality(Range(Targets(p)))
              /\ \A i \in 1..Len(Targets(p)) :
                   /\ Cardinality(EntriesFor(store, p, Targets(p)[i])) = 1
                   /\ CallsFor(p, "create", i) = {}
                   /\ Cardinality(CallsFor(p, "update", i)) = 1
                   /\ \A k \in CallsFor(p, "update", i) :
                        log[p][k].id \in
                          { e.id : e \in EntriesFor(call[p].store0, p, Targets(p)[i]) }

\* The second of two Ensure calls has returned, for a record with a trailing
\* dot in its name and two different targets.
C2_Witness ==
    \E p \in Procs :
        /\ Done(p) /\ call[p].op = "Ensure" /\ Follows(p, "Ensure") /\ Quiet(p)
        /\ rec[p].DNSName = << "a", "." >>
        /\ Len(Targets(p)) = 2 /\ Targets(p)[1] # Targets(p)[2]

\* The TTL the provider accepts for a requested TTL: 120 for 0 and for 2..119.
ExpectedTTL(ttl) == IF ttl = 0 \/ ttl \in 2..119 THEN 120 ELSE ttl

\* The store holds, for the target, an entry with the name (as the service
\* keeps it), the type and the effective TTL of the record of p.
Converged(p, target) ==
    \E e \in EntriesFor(store, p, target) :
        e.ttl = ExpectedTTL(call[p].rec0.RecordTTL)

\* C3 as stated: whenever Ensure or Replace returns no error (no other writer
\* acting meanwhile and no call failing without a response), the store holds
\* for every target an entry with the record's name and type, that content
\* and the effective TTL; a not-found answer to the list leads to a create.
C3_Original ==
    \A p \in Procs :
        (/\ Done(p) /\ IsUpsert(p) /\ ret[p] = NoError /\ Undisturbed(p)
         /\ \A k \in 1..Len(log[p]) : log[p][k].status # NoResponse)
        => \A t \in Range(Targets(p)) : Converged(p, t)

\* What the code does guarantee in place of C3: whenever Ensure or Replace
\* returns no error and no other writer acted during the call, every target
\* has been listed once, and the store holds such an entry for every target
\* whose list call returned a result; a target whose list call failed (a
\* not-found answer, or no response at all) is skipped: no create and no
\* update is issued for it.
C3_Converged ==
    \A p \in Procs :
        (Done(p) /\ IsUpsert(p) /\ ret[p] = NoError /\ Undisturbed(p))
        => \A i \in 1..Len(Targets(p)) :
             /\ Cardinality(CallsFor(p, "list", i)) = 1
             /\ \A k \in CallsFor(p, "list", i) :
                  IF log[p][k].err
                  THEN CallsFor(p, "create", i) = {} /\ CallsFor(p, "update", i) = {}
                  ELSE Converged(p, Targets(p)[i])

\* An upsert has returned no error after a not-found answer to the list of
\* its first target: the second target has its entry, the first has none.
C3_Witness ==
    \E p \in Procs :
        /\ Done(p) /\ IsUpsert(p) /\ ret[p] = NoError /\ Undisturbed(p)
        /\ Len(Targets(p)) = 2 /\ Targets(p)[1] # Targets(p)[2]
        /\ call[p].rec0.RecordTTL = 0
        /\ \E k \in CallsFor(p, "list", 1) : log[p][k].status = StatusNotFound
        /\ EntriesFor(store, p, Targets(p)[1]) = {}
        /\ Converged(p, Targets(p)[2])

\* C4 as stated: whenever Delete returns no error and no other writer acted
\* during the call, the store of the zone the call addresses holds no entry
\* whose name and type equal the record's and whose content is one of the
\* record's targets.
C4_Original ==
    \A p \in Procs :
        (Done(p) /\ call[p].op = "Delete" /\ ret[p] = NoError /\ Undisturbed(p))
        => { e \in store : /\ e.zone = ZoneIdentifier(call[p].zone)
                           /\ e.name = rec[p].DNSName
                           /\ e.type = rec[p].RecordType
                           /\ e.content \in Range(Targets(p)) } = {}

\* The targets of the record of p are pairwise different.
DistinctTargets(p) == Cardinality(Range(Targets(p))) = Len(Targets(p))

\* C5 as stated: for every valid record with N distinct targets and a
\* registered zone, on a store that held no entry of the record and with
\* every remote call succeeding, Ensure leaves exactly N entries, one per
\* target, and a following Delete with the same record and zone removes all
\* of them and returns no error.
C5_Original ==
    \A p \in Procs :
        /\ (/\ Done(p) /\ call[p].op = "Ensure" /\ Accepted(p) /\ DistinctTargets(p)
            /\ Fresh(p) /\ Quiet(p))
           => /\ ret[p] = NoError
              /\ Cardinality(EntriesOf(store, rec[p], ZoneIdentifier(call[p].zone))) = Len(Targets(p))
              /\ \A t \in Range(Targets(p)) : Cardinality(EntriesFor(store, p, t)) = 1
        /\ (/\ Done(p) /\ call[p].op = "Delete" /\ DistinctTargets(p)
            /\ Follows(p, "Ensure") /\ Quiet(p))
           => /\ ret[p] = NoError
              /\ EntriesOf(store, rec[p], ZoneIdentifier(call[p].zone)) = {}

\* An answer Delete tolerates: a list with a result whose entries all have an
\* id, a not-found answer to a list, a delete that succeeded or was answered
\* not-found.
DeleteTolerated(e) ==
    \/ /\ e.call = "list"
       /\ \/ ~e.err /\ ~e.nilResult /\ NilID \notin Range(e.result)
          \/ e.err /\ e.status = StatusNotFound
    \/ /\ e.call = "delete"
       /\ (~e.err \/ e.status = StatusNotFound)

\* C6: Delete returns no error when no target has a matching entry (empty
\* result or not-found answer to the list) and when a delete call is answered
\* not-found because another writer removed the entry after the list; the
\* loop goes on: every target is listed once and a delete is issued for
\* every listed entry.
C6_DeleteTolerant ==
    \A p \in Procs :
        (/\ Done(p) /\ call[p].op = "Delete" /\ Accepted(p)
         /\ \A k \in 1..Len(log[p]) : DeleteTolerated(log[p][k]))
        => /\ ret[p] = NoError
           /\ \A i \in 1..Len(Targets(p)) :
                /\ Cardinality(CallsFor(p, "list", i)) = 1
                /\ \A k \in CallsFor(p, "list", i) :
                     /\ Cardinality(CallsFor(p, "delete", i)) = Len(log[p][k].result)
                     /\ \A j \in 1..Len(log[p][k].result) :
                          \E m \in CallsFor(p, "delete", i) :
                              m > k /\ log[p][m].id = log[p][k].result[j]

\* A Delete has returned no error although one of its delete calls was
\* answered not-found, and it issued further remote calls after that one.
C6_Witness ==
    \E p \in Procs :
        /\ Done(p) /\ call[p].op = "Delete" /\ ret[p] = NoError
        /\ \E k \in 1..(Len(log[p]) - 1) :
             /\ log[p][k].call = "delete"
             /\ log[p][k].err /\ log[p][k].status = StatusNotFound

\* A remote failure on the delete path that is not a not-found answer nor a
\* failure without a response: a failed list or delete with another status,
\* a list without a result body.
DeleteFailure(e) ==
    \/ e.call \in { "list", "delete" } /\ e.err
       /\ e.status # NoResponse /\ e.status # StatusNotFound
    \/ e.call = "list" /\ ~e.err /\ e.nilResult

DeleteFailureKind(e) ==
    IF e.call = "delete" THEN "deleteFailed"
    ELSE IF e.err THEN "listFailed"
    ELSE "invalidResult"

\* The store still holds the entry with this id.
Held(id) == \E e \in store : e.id = id

C8_Original ==
    \A p \in Procs :
        (Done(p) /\ \E k \in 1..Len(log[p]) :
                        log[p][k].err /\ log[p][k].status # StatusNotFound)
        => ret[p] # NoError

\* The (record, zone) pair of the call of p breaks a validation rule.
BreaksRule(p) ==
    \/ call[p].rec0.isNil
    \/ Len(call[p].rec0.DNSName) = 0
    \/ call[p].rec0.RecordType = ""
    \/ Len(call[p].rec0.Targets) = 0
    \/ call[p].zone = ""

\* C9: Ensure, Replace and Delete called with a nil record, a record with an
\* empty name, type or targets list, or a zone with an empty id return a
\* validation error and issue no remote call; the store is as it was.
C9_ValidationFirst ==
    \A p \in Procs :
        (call[p].op \in Ops /\ BreaksRule(p))
        => /\ Done(p)
           /\ ret[p].kind = "invalid" /\ ret[p].errs # << >>
           /\ log[p] = << >>
           /\ rec[p] = call[p].rec0
           /\ Undisturbed(p) => store = call[p].store0

\* A Delete of a record whose only defect is its empty targets list has
\* returned, while the store holds entries.
C9_Witness ==
    \E p \in Procs :
        /\ Done(p) /\ ret[p].kind = "invalid"
        /\ call[p].op = "Delete"
        /\ ~call[p].rec0.isNil /\ Len(call[p].rec0.Targets) = 0
        /\ Len(call[p].rec0.DNSName) > 0 /\ call[p].rec0.RecordType # ""
        /\ call[p].zone = "z1"
        /\ store # {} /\ store = call[p].store0

\* C10: Ensure, Replace and Delete called with a valid record and a zone id
\* that has no client return an error naming the zone and issue no remote
\* call; the store of every zone is as it was.
C10_UnknownZone ==
    \A p \in Procs :
        (call[p].op \in Ops /\ ~BreaksRule(p) /\ call[p].zone \notin ConfiguredZones)
        => /\ Done(p)
           /\ ret[p] = Error("unknownZone", << call[p].zone >>)
           /\ log[p] = << >>
           /\ Undisturbed(p) => store = call[p].store0

\* A call for the zone id "zx", which has no client, has returned while the
\* store holds entries.
C10_Witness ==
    \E p \in Procs :
        /\ Done(p) /\ ret[p].kind = "unknownZone"
        /\ call[p].zone = "zx"
        /\ store # {} /\ store = call[p].store0

(***************************************************************************)
(* The TTL policy.  The upsert path of the model above, called with one    *)
(* name, type and zone and with requested TTLs around every boundary of    *)
(* the policy (RecordTTL is an int64: negative values are values it can    *)
(* hold), one call after the other, so that the second call updates what   *)
(* the first created.                                                      *)
(***************************************************************************)
TTLCases == { -1, 0, 1, 2, 50, 119, 120, 121, 2147483647 }

TTLRecords ==
    [isNil : {FALSE}, DNSName : { << "a" >> }, RecordType : { "A" },
     Targets : { << "t1" >>, << "t1", "t2" >> }, RecordTTL : TTLCases]

EnsureTTL(p) ==
    \E record \in TTLRecords : createOrUpdateDNSRecord(p, "Ensure", record, "z1")

ReplaceTTL(p) ==
    \E record \in TTLRecords : createOrUpdateDNSRecord(p, "Replace", record, "z1")

InitTTL == Init /\ mode = "sequence"

NextTTL ==
    \/ \E p \in Procs : EnsureTTL(p)
    \/ \E p \in Procs : ReplaceTTL(p)
    \/ \E p \in Procs : UpsertList(p)
    \/ \E p \in Procs : UpsertCreate(p)
    \/ \E p \in Procs : UpsertUpdate(p)
    \/ \E p \in Procs : Return(p)

SpecTTL == InitTTL /\ [][NextTTL]_vars

\* The effective TTLs the spec lists for its sample of requested TTLs.
ClampingTable ==
    [ttl \in { 0, 1, 50, 119, 120, 121, 2147483647 } |->
        CASE ttl = 0 -> 120
          [] ttl = 1 -> 1
          [] ttl = 50 -> 120
          [] ttl = 119 -> 120
          [] ttl = 120 -> 120
          [] ttl = 121 -> 121
          [] ttl = 2147483647 -> 2147483647]

\* The create and update calls the call of p has issued.
Writes(p) ==
    { k \in 1..Len(log[p]) : log[p][k].call \in { "create", "update" } }

\* C11: for a requested TTL in 0..2147483647 the effective TTL is 120 when
\* the request is 0 or in 2..119 and the request itself when it is 1 or at
\* least 120 (the spec's table included); it is in the record before the
\* first target is listed, and every create and update of the call carries
\* it, for all targets.
C11_EffectiveTTL ==
    \A p \in Procs :
        (IsUpsert(p) /\ Accepted(p) /\ call[p].rec0.RecordTTL \in 0..2147483647)
        => LET ttl == call[p].rec0.RecordTTL
           IN  /\ rec[p].RecordTTL = ExpectedTTL(ttl)
               /\ ttl \in DOMAIN ClampingTable => rec[p].RecordTTL = ClampingTable[ttl]
               /\ \A k \in Writes(p) : log[p][k].ttl = ExpectedTTL(ttl)

\* An Ensure that asked for a TTL of 119 has returned after updating the
\* entry of its first target and creating the entry of its second, both
\* with a TTL of 120.
C11_Witness ==
    \E p \in Procs :
        /\ Done(p) /\ IsUpsert(p) /\ ret[p] = NoError
        /\ call[p].rec0.RecordTTL = 119
        /\ \E k \in CallsFor(p, "update", 1) : log[p][k].ttl = 120
        /\ \E k \in CallsFor(p, "create", 2) : log[p][k].ttl = 120

\* C12 as stated: whatever TTL the record carries, negative values included,
\* every create and update of Ensure/Replace carries a TTL that is 1 or lies
\* in 120..2147483647.
C12_Original ==
    \A p \in Procs :
        IsUpsert(p) =>
            \A k \in Writes(p) :
                log[p][k].ttl = 1 \/ log[p][k].ttl \in 120..2147483647

\* C13 as stated: Ensure, Replace and Delete never abort the process: a
\* call is idle, at one of its remote calls, or has returned; a list that
\* succeeds without a result body, or with an entry whose id is nil, makes
\* the call return an error.
C13_Original ==
    \A p \in Procs :
        /\ pc[p] # "panic"
        /\ (/\ log[p] # << >>
            /\ log[p][Len(log[p])].call = "list"
            /\ ~log[p][Len(log[p])].err
            /\ (log[p][Len(log[p])].nilResult
                \/ NilID \in Range(log[p][Len(log[p])].result)))
           => (Done(p) => ret[p].kind \in { "invalidResult", "idNil" })

(***************************************************************************)
(* Concurrent callers.  The provider holds no lock: two goroutines run the *)
(* code above at the same time and their remote calls interleave in any    *)
(* order.  Each of two callers makes one call, Ensure or Delete, on a      *)
(* store that holds an entry for some of the records, with every remote    *)
(* call answered.                                                          *)
(***************************************************************************)
Callers == { 1, 2 }

ConcurrentRecords ==
    [isNil : {FALSE}, DNSName : { << "a" >>, << "b" >> }, RecordType : { "A" },
     Targets : { << "t1" >>, << "t1", "t2" >> }, RecordTTL : { 0 }]
    \cup [isNil : {FALSE}, DNSName : { << "b" >> }, RecordType : { "A" },
          Targets : { << "t2", "t2" >> }, RecordTTL : { 0 }]
    \cup [isNil : {FALSE}, DNSName : { << "a" >>, << "a", "." >> },
          RecordType : { "A", "TXT" }, Targets : { << "t1" >> }, RecordTTL : { 0 }]

\* The entries the store holds when the callers start.
SeededStore ==
    { Entry(1, "z1", << "a" >>, "A", "t1", ExternalTTL),
      Entry(2, "z2", << "b" >>, "A", "t1", ExternalTTL) }

EnsureConcurrent(p) ==
    \E record \in ConcurrentRecords, zone \in ConfiguredZones :
        createOrUpdateDNSRecord(p, "Ensure", record, zone)

DeleteConcurrent(p) ==
    \E record \in ConcurrentRecords, zone \in ConfiguredZones :
        DeleteRecord(p, record, zone)

InitConcurrent ==
    /\ cluster = NoDeployment
    /\ RouterIdle
    /\ store = SeededStore
    /\ nextId = Cardinality(SeededStore) + 1
    /\ dnsServices \in NewProvider(Zones)
    /\ pc = [p \in Callers |-> "idle"]
    /\ call = [p \in Callers |-> NoCall]
    /\ rec = [p \in Callers |-> NilRecord]
    /\ idx = [p \in Callers |-> 0]
    /\ listed = [p \in Callers |-> <<>>]
    /\ dj = [p \in Callers |-> 0]
    /\ ret = [p \in Callers |-> Pending]
    /\ log = [p \in Callers |-> <<>>]
    /\ prev = NoPrev
    /\ mode = "sequence"
    /\ calls = 0
    /\ faults = 0
    /\ externals = 0

NextConcurrent ==
    \/ \E p \in Callers : EnsureConcurrent(p)
    \/ \E p \in Callers : DeleteConcurrent(p)
    \/ \E p \in Callers : UpsertList(p)
    \/ \E p \in Callers : UpsertCreate(p)
    \/ \E p \in Callers : UpsertUpdate(p)
    \/ \E p \in Callers : DeleteList(p)
    \/ \E p \in Callers : DeleteEntry(p)

SpecConcurrent == InitConcurrent /\ [][NextConcurrent]_vars

\* A store without the ids: how many entries it holds for every
\* (zone, name, type, content, ttl).
Shape(st) ==
    LET key(e) == << e.zone, e.name, e.type, e.content, e.ttl >>
    IN  [k \in { key(e) : e \in st } |-> Cardinality({ e \in st : key(e) = k })]

FreeId(st) ==
    IF st = {} THEN 1
    ELSE 1 + CHOOSE m \in { e.id : e \in st } : \A e \in st : e.id <= m

\* The store an upsert leaves when nothing else runs during the call: for
\* every target in turn, a new entry if none matches, the effective TTL on
\* one matching entry otherwise.
RECURSIVE UpsertAlone(_, _, _, _)
UpsertAlone(st, zone, record, i) ==
    IF i > Len(record.Targets) THEN st
    ELSE LET target == record.Targets[i]
             ttl == ExpectedTTL(record.RecordTTL)
             found == Matching(st, zone, remoteName(record.DNSName),
                               record.RecordType, target)
         IN  IF found = {}
             THEN UpsertAlone(st \cup { Entry(FreeId(st), zone, record.DNSName,
                                              record.RecordType, target, ttl) },
                              zone, record, i + 1)
             ELSE LET e == CHOOSE e \in found : TRUE
                  IN  UpsertAlone((st \ { e })
                                     \cup { Entry(e.id, zone, record.DNSName,
                                                  record.RecordType, target, ttl) },
                                  zone, record, i + 1)

\* The store a Delete leaves when nothing else runs during the call: without
\* the entries whose name, type and content are the record's.
DeleteAlone(st, zone, record) ==
    { e \in st : ~(/\ e.zone = zone
                   /\ e.name = record.DNSName
                   /\ e.type = record.RecordType
                   /\ e.content \in Range(record.Targets)) }

\* The store the call c leaves when it runs alone on the store st.
RunAlone(st, c) ==
    IF c.op = "Delete"
    THEN DeleteAlone(st, ZoneIdentifier(c.zone), c.rec0)
    ELSE UpsertAlone(st, ZoneIdentifier(c.zone), c.rec0, 1)

\* The calls of p and q are for different zones, or for records with
\* different (name, type), a name being the same with and without its
\* trailing dot.
Independent(p, q) ==
    \/ call[p].zone # call[q].zone
    \/ remoteName(call[p].rec0.DNSName) # remoteName(call[q].rec0.DNSName)
    \/ call[p].rec0.RecordType # call[q].rec0.RecordType

\* The ids of the entries the call of p has listed, created, updated or
\* deleted.
Touched(p) ==
    UNION { Range(log[p][k].result) \cup { log[p][k].id } : k \in 1..Len(log[p]) }
        \ { NilID }

\* The ids of the entries that belong to the record of the call of p: the
\* entries of its zone with its name (up to the trailing dot), its type and
\* one of its targets.
Owned(p) ==
    { e.id : e \in EntriesOf(store \cup call[p].store0, call[p].rec0, call[p].zone) }

\* Both callers have returned from calls on independent records.
BothDone(p, q) ==
    /\ p # q /\ Done(p) /\ Done(q)
    /\ Independent(p, q)

\* C14 as stated: two concurrent calls on records in different zones, or
\* with different (name, type) in the same zone, are independent: however
\* their remote calls interleave, each returns what it returns when the two
\* run one after the other (no error), the store ends as it ends then, and
\* neither call lists, creates, updates or deletes an entry that belongs to
\* the record of the other.
C14_Original ==
    \A p, q \in Callers :
        /\ (p # q /\ call[p].op \in Ops /\ call[q].op \in Ops /\ Independent(p, q))
           => Touched(p) \cap Owned(q) = {}
        /\ BothDone(p, q)
           => /\ ret[p] = NoError
              /\ Shape(store) = Shape(RunAlone(RunAlone(SeededStore, call[p]), call[q]))

\* With clients that each address their own zone, the statement of C14
\* holds.
C14_Scoped ==
    (\A z \in DOMAIN dnsServices : dnsServices[z] = z) => C14_Original

\* Two Ensure calls for the same zone and different names have both
\* returned, their remote calls interleaved.
C14_Witness ==
    \E p, q \in Callers :
        /\ BothDone(p, q)
        /\ call[p].zone = call[q].zone
        /\ call[p].op = "Ensure" /\ call[q].op = "Ensure"
        /\ Len(Targets(p)) = 2 /\ Len(Targets(q)) = 2
        /\ \A z \in DOMAIN dnsServices : dnsServices[z] = z

\* The validation rules the (record, zone) pair of the call of p breaks.
RulesBroken(p) ==
    LET r == call[p].rec0
    IN  (IF r.isNil THEN { "dns record is nil" } ELSE {})
        \cup (IF ~r.isNil /\ r.DNSName = << >> THEN { "dns record name is empty" } ELSE {})
        \cup (IF ~r.isNil /\ r.RecordType = "" THEN { "dns record type is empty" } ELSE {})
        \cup (IF ~r.isNil /\ r.Targets = << >> THEN { "dns record content is empty" } ELSE {})
        \cup (IF call[p].zone = "" THEN { "dns zone id is empty" } ELSE {})

\* C15: validation reports every broken rule, not only the first: the
\* aggregate error of a call holds exactly one failure for each rule its
\* (record, zone) pair breaks (for a nil record: the nil record, and the
\* empty zone id if it is empty), and a call gets past validation exactly
\* when the pair breaks no rule.
C15_EveryRule ==
    \A p \in Procs :
        call[p].op \in Ops
        => /\ (ret[p].kind = "invalid") = (RulesBroken(p) # {})
           /\ ret[p].kind = "invalid"
              => /\ Range(ret[p].errs) = RulesBroken(p)
                 /\ Len(ret[p].errs) = Cardinality(RulesBroken(p))
           /\ call[p].rec0.isNil
              => Len(ret[p].errs) = (IF call[p].zone = "" THEN 2 ELSE 1)

\* A call with a record whose name, type and targets are all empty and a
\* zone with an empty id has returned four failures.
C15_Witness ==
    \E p \in Procs :
        /\ Done(p) /\ ret[p].kind = "invalid"
        /\ ~call[p].rec0.isNil
        /\ Len(ret[p].errs) = 4

\* C16: when the list for a target returned k >= 1 entries (each with an
\* id), the upsert issues one update and nothing else for that target: the
\* update names the id of the first entry listed and carries the record's
\* name and type, the target as content and the effective TTL; no create and
\* no delete is issued; the store holds as many entries after the update as
\* before it, and every entry but the one updated is as it was.
C16_UpdateFirst ==
    [][\A p \in Procs :
         (pc[p] = "update" /\ pc'[p] # "update" /\ listed[p][1] # NilID)
         => /\ Len(log'[p]) = Len(log[p]) + 1
            /\ LET e == log'[p][Len(log'[p])]
                   i == idx[p]
               IN  /\ e.call = "update" /\ e.tgt = i
                   /\ e.id = listed[p][1]
                   /\ e.name = call[p].rec0.DNSName
                   /\ e.type = call[p].rec0.RecordType
                   /\ e.content = call[p].rec0.Targets[i]
                   /\ e.ttl = ExpectedTTL(call[p].rec0.RecordTTL)
                   /\ Cardinality({ k \in 1..Len(log'[p]) :
                          log'[p][k].call = "update" /\ log'[p][k].tgt = i }) = 1
                   /\ \A k \in 1..Len(log'[p]) :
                        /\ log'[p][k].call # "delete"
                        /\ log'[p][k].tgt = i => log'[p][k].call # "create"
            /\ Cardinality(store') = Cardinality(store)
            /\ \A x \in store : x.id # listed[p][1] => x \in store'
            /\ \A x \in store' : x.id # listed[p][1] => x \in store]_vars

\* An upsert has updated the first of two entries listed for a target: the
\* first has the effective TTL, the second is in the store as the other
\* writer created it.
C16_Witness ==
    \E p \in Procs :
        /\ IsUpsert(p) /\ log[p] # << >>
        /\ log[p][Len(log[p])].call = "update" /\ ~log[p][Len(log[p])].err
        /\ Len(listed[p]) = 2
        /\ call[p].rec0.RecordTTL = 0
        /\ \E x \in store : x.id = listed[p][1] /\ x.ttl = 120
        /\ \E x \in store : x.id = listed[p][2] /\ x.ttl = ExternalTTL

\* C17 as stated: every client of the provider is scoped to its own zone: a
\* call with zone id z sends its list, create, update and delete calls to
\* zone z only, and, no other writer acting, changes no entry of another
\* zone.
C17_Original ==
    \A p \in Procs :
        call[p].op \in Ops
        => /\ \A k \in 1..Len(log[p]) : log[p][k].zone = call[p].zone
           /\ Undisturbed(p)
              => \A e \in (store \ call[p].store0) \cup (call[p].store0 \ store) :
                    e.zone = call[p].zone

(***************************************************************************)
(* The router deployment reconciler.  A name built from parts             *)
(* ("router-" + ci.Name) is the sequence of its parts.  A pointer to a     *)
(* string (ci.Spec.DefaultCertificateSecret) is the empty sequence when    *)
(* nil and the one-element sequence of the string otherwise.  The cluster  *)
(* answers a read with the deployment it holds, with not-found when it     *)
(* holds none, or with another error; a write succeeds or fails.  No one   *)
(* else writes the deployment during a call.                               *)
(***************************************************************************)
ClusterIngresses ==
    [Name : { "default" },
     DefaultCertificateSecret : { << >>, << "" >>, << "custom" >> },
     Replicas : { 1, 2 },
     validSelectors : BOOLEAN]

routerDeploymentName(c) ==
    [Namespace |-> "openshift-ingress", Name |-> << "router-", c.Name >>]

\* desiredRouterDeployment, when the selectors of the clusteringress are
\* valid: name, namespace, replicas and the secret name of the first volume.
desiredRouterDeployment(c) ==
    LET secretName ==
            IF c.DefaultCertificateSecret # << >> /\ c.DefaultCertificateSecret[1] # ""
            THEN << c.DefaultCertificateSecret[1] >>
            ELSE << "router-certs-", c.Name >>
    IN  Deployment(routerDeploymentName(c).Name, routerDeploymentName(c).Namespace,
                   2, secretName, c.Replicas)

\* The deployments the cluster may hold when a call starts.
InitialClusters ==
    { NoDeployment }
    \cup { Deployment(<< "router-", "default" >>, "openshift-ingress", 2, secret, replicas) :
             secret \in { << "router-certs-", "default" >>, << "custom" >> },
             replicas \in { NilReplicas, 1, 2 } }

\* r.Client.Get: the error it returns.
Get(c) ==
    (IF c.isNil THEN { "notFound" } ELSE { "nil" }) \cup { "failed" }

\* currentRouterDeployment: nil for a not-found answer; for every other
\* error the object the read left empty, and no error.
currentRouterDeployment(c, err) ==
    IF err = "notFound" THEN [deployment |-> NoDeployment, err |-> "nil"]
    ELSE IF err # "nil" THEN [deployment |-> EmptyDeployment, err |-> "nil"]
    ELSE [deployment |-> c, err |-> "nil"]

\* deploymentConfigChanged: whether secret name or replicas differ, and the
\* deployment to write.
deploymentConfigChanged(cur, expected) ==
    IF /\ cur.SecretName = expected.SecretName
       /\ cur.Replicas # NilReplicas
       /\ cur.Replicas = expected.Replicas
    THEN [changed |-> FALSE, updated |-> NoDeployment]
    ELSE [changed |-> TRUE,
          updated |-> [cur EXCEPT !.SecretName = expected.SecretName,
                                  !.Replicas = IF expected.Replicas # NilReplicas
                                               THEN expected.Replicas ELSE 1]]

RouterReturns(deployment, err) ==
    /\ returned' = [deployment |-> deployment, err |-> err]
    /\ rpc' = "done"

\* ensureRouterDeployment, up to the first read of the cluster.
ensureRouterDeployment ==
    /\ rpc = "idle"
    /\ \E c \in ClusterIngresses :
         /\ ci' = c
         /\ IF ~c.validSelectors
            THEN /\ desired' = NoDeployment
                 /\ RouterReturns(NoDeployment, "failed to build router deployment")
            ELSE /\ desired' = desiredRouterDeployment(c)
                 /\ rpc' = "current"
                 /\ returned' = NoResult
    /\ cluster0' = cluster
    /\ writes' = << >>
    /\ current' = NoDeployment
    /\ UNCHANGED << cluster, providerVars >>

\* "current, err := r.currentRouterDeployment(ci)" and the switch on it.
ReadCurrent ==
    /\ rpc = "current"
    /\ \E e \in Get(cluster) :
         LET got == currentRouterDeployment(cluster, e)
         IN  IF got.err # "nil"
             THEN /\ RouterReturns(NoDeployment, got.err)
                  /\ current' = current
             ELSE /\ current' = got.deployment
                  /\ rpc' = IF got.deployment.isNil THEN "create" ELSE "update"
                  /\ returned' = returned
    /\ UNCHANGED << cluster, ci, desired, writes, cluster0, providerVars >>

createRouterDeployment ==
    /\ rpc = "create"
    /\ writes' = Append(writes, "create")
    /\ \/ /\ cluster.isNil
          /\ cluster' = desired
          /\ rpc' = "final"
          /\ returned' = returned
       \/ /\ cluster' = cluster
          /\ RouterReturns(NoDeployment, "failed to create router deployment")
    /\ UNCHANGED << ci, desired, current, cluster0, providerVars >>

\* updateRouterDeployment: deploymentConfigChanged reads Volumes[0] of
\* current, which panics (index out of range) when current has no volume.
updateRouterDeployment ==
    /\ rpc = "update"
    /\ IF current.Volumes = 0
       THEN /\ rpc' = "panic"
            /\ UNCHANGED << cluster, returned, writes >>
       ELSE LET d == deploymentConfigChanged(current, desired)
            IN  IF ~d.changed
                THEN /\ rpc' = "final"
                     /\ UNCHANGED << cluster, returned, writes >>
                ELSE /\ writes' = Append(writes, "update")
                     /\ \/ /\ ~cluster.isNil
                           /\ cluster' = d.updated
                           /\ rpc' = "final"
                           /\ returned' = returned
                        \/ /\ cluster' = cluster
                           /\ RouterReturns(NoDeployment,
                                            "failed to update router deployment")
    /\ UNCHANGED << ci, desired, current, cluster0, providerVars >>

\* "return r.currentRouterDeployment(ci)".
ReadFinal ==
    /\ rpc = "final"
    /\ \E e \in Get(cluster) :
         LET got == currentRouterDeployment(cluster, e)
         IN  RouterReturns(got.deployment, got.err)
    /\ UNCHANGED << cluster, ci, desired, current, writes, cluster0, providerVars >>

\* The call has returned; the next one finds what it left in the cluster.
RouterReturn ==
    /\ rpc = "done"
    /\ rpc' = "idle"
    /\ ci' = NoClusterIngress
    /\ desired' = NoDeployment
    /\ current' = NoDeployment
    /\ returned' = NoResult
    /\ writes' = << >>
    /\ cluster0' = NoDeployment
    /\ UNCHANGED << cluster, providerVars >>

InitRouter ==
    /\ cluster \in InitialClusters
    /\ RouterIdle
    /\ store = {}
    /\ nextId = 1
    /\ dnsServices \in NewProvider(Zones)
    /\ pc = [p \in Procs |-> "idle"]
    /\ call = [p \in Procs |-> NoCall]
    /\ rec = [p \in Procs |-> NilRecord]
    /\ idx = [p \in Procs |-> 0]
    /\ listed = [p \in Procs |-> <<>>]
    /\ dj = [p \in Procs |-> 0]
    /\ ret = [p \in Procs |-> Pending]
    /\ log = [p \in Procs |-> <<>>]
    /\ prev = NoPrev
    /\ mode = "sequence"
    /\ calls = 0
    /\ faults = 0
    /\ externals = 0

NextRouter ==
    \/ ensureRouterDeployment
    \/ ReadCurrent
    \/ createRouterDeployment
    \/ updateRouterDeployment
    \/ ReadFinal
    \/ RouterReturn

SpecRouter == InitRouter /\ [][NextRouter]_vars

\* C18 as stated: whatever the reads of the cluster answer (found, not
\* found, another error), ensureRouterDeployment returns, and it returns an
\* error or the deployment the cluster holds under the name
\* router-<clusteringress name> in namespace openshift-ingress, with the
\* desired secret name and replica count; it has created the deployment when
\* there was none, updated it when secret name or replicas differed, and
\* written nothing when both matched.
C18_Original ==
    /\ rpc # "panic"
    /\ (rpc = "done" /\ returned.err = "nil")
       => /\ ~returned.deployment.isNil
          /\ returned.deployment = cluster
          /\ cluster.Name = << "router-", ci.Name >>
          /\ cluster.Namespace = "openshift-ingress"
          /\ cluster.SecretName = desired.SecretName
          /\ cluster.Replicas = ci.Replicas
          /\ writes = (IF cluster0.isNil THEN << "create" >>
                       ELSE IF cluster0.SecretName # desired.SecretName
                               \/ cluster0.Replicas # ci.Replicas
                            THEN << "update" >>
                            ELSE << >>)

\* When every read of the cluster is answered (found or not found), the
\* statement of C18 holds.
C18_ReadsAnswered ==
    (current # EmptyDeployment /\ returned.deployment # EmptyDeployment)
    => C18_Original

\* Both callers have returned from an Ensure with the same record and zone,
\* started on a store that held no entry of the record.
SameEnsureDone(p, q) ==
    /\ p # q /\ Done(p) /\ Done(q)
    /\ call[p].op = "Ensure" /\ call[q].op = "Ensure"
    /\ call[p].zone = call[q].zone
    /\ call[p].rec0 = call[q].rec0
    /\ EntriesOf(SeededStore, call[p].rec0, ZoneIdentifier(call[p].zone)) = {}

\* C19 as stated: two concurrent Ensure calls for the same record and zone,
\* on a store with no entry of the record and with every remote call
\* succeeding, leave exactly one entry per target however their remote calls
\* interleave.
C19_Original ==
    \A p, q \in Callers :
        SameEnsureDone(p, q)
        => \A t \in Range(Targets(p)) : Cardinality(EntriesFor(store, p, t)) = 1

\* C19, amended: the two calls are not coordinated.  Both return no error
\* and leave, for every target, one or two entries with the effective TTL:
\* as many as creates were issued for it, two when both calls listed the
\* target before either created its entry.  A call that started when the
\* other had created the entries of all targets issues updates only, and
\* every target then has one entry.
C19_Uncoordinated ==
    \A p, q \in Callers :
        SameEnsureDone(p, q)
        => /\ ret[p] = NoError
           /\ \A t \in Range(Targets(p)) :
                LET found == EntriesFor(store, p, t)
                    creates(c) == { k \in 1..Len(log[c]) :
                                      log[c][k].call = "create" /\ log[c][k].content = t }
                IN  /\ Cardinality(found) \in { 1, 2 }
                    /\ Cardinality(found)
                         = Cardinality(creates(p)) + Cardinality(creates(q))
                    /\ \A e \in found : e.ttl = ExpectedTTL(call[p].rec0.RecordTTL)
           /\ (\A t \in Range(Targets(q)) : EntriesFor(call[q].store0, q, t) # {})
              => \A i \in 1..Len(Targets(q)) :
                   /\ CallsFor(q, "create", i) = {}
                   /\ Cardinality(EntriesFor(store, q, Targets(q)[i])) = 1

\* Both calls have returned and each of the two targets has two entries.
C19_Witness ==
    \E p, q \in Callers :
        /\ SameEnsureDone(p, q)
        /\ Len(Targets(p)) = 2 /\ Targets(p)[1] # Targets(p)[2]
        /\ \A t \in Range(Targets(p)) : Cardinality(EntriesFor(store, p, t)) = 2

\* The record object r of a caller whose call is c is as the caller passed
\* it, but for the TTL of an Ensure/Replace that got past validation and
\* zone resolution, which is the effective TTL.
RecordFrame(c, r) ==
    c.op \in Ops
    => IF \/ c.op = "Delete"
          \/ c.rec0.isNil
          \/ c.rec0.DNSName = << >> \/ c.rec0.RecordType = "" \/ c.rec0.Targets = << >>
          \/ c.zone = ""
          \/ c.zone \notin ConfiguredZones
       THEN r = c.rec0
       ELSE /\ r.RecordTTL = ExpectedTTL(c.rec0.RecordTTL)
            /\ [r EXCEPT !.RecordTTL = c.rec0.RecordTTL] = c.rec0

\* C20: no step of Ensure, Replace or Delete changes the zone client
\* registry, and none changes the caller's record, with one exception:
\* Ensure/Replace write the effective TTL into the record once validation
\* and zone resolution have passed.  Delete, and an Ensure/Replace that
\* fails validation or zone resolution, change no field of the record.
C20_Frame ==
    [][/\ dnsServices' = dnsServices
       /\ \A p \in Procs : RecordFrame(call'[p], rec'[p])]_vars

\* An Ensure that asked for a TTL of 0 has returned no error: its record
\* holds the TTL 120 and is otherwise as passed.
C20_Witness ==
    \E p \in Procs :
        /\ Done(p) /\ call[p].op = "Ensure" /\ ret[p] = NoError
        /\ call[p].rec0.RecordTTL = 0
        /\ rec[p].RecordTTL = 120
        /\ rec[p].Targets = call[p].rec0.Targets
        /\ rec[p].DNSName = call[p].rec0.DNSName

====
